---- MODULE Spec2Model ----
(***************************************************************************)
(* State-machine model of the two scripts of the repository:               *)
(*   download_stock.py  (the Downloader)   - specification Spec            *)
(*   ml/model.py        (the Trainer)      - specification SpecTrainer     *)
(*   ml/model.py create_synthetic_data, two runs side by side              *)
(*                                         - specification SpecData        *)
(* Strings that the code transforms (the ticker) are sequences of          *)
(* one-character strings, so that str.upper() is computed, not assumed.    *)
(***************************************************************************)
EXTENDS Integers, Sequences, FiniteSets, TLC

\* ------------------------------------------------------------------------
\* Bounds of the model
\* ------------------------------------------------------------------------
\* longest ticker argument tried
MaxLen == 2
\* number of successive executions of a script
MaxRuns == 2
\* largest seq_length and num_samples given to create_synthetic_data
MaxSeqLen == 2
MaxSamples == 2
\* number of states of the modelled random generators
RngMod == 5

VARIABLES
    \* ---- Downloader (download_stock.py) ----
    argv,        \* sys.argv: <<program name>> or <<program name, ticker>>
    d_pc,        \* line the Downloader is about to execute, or "exited"
    ticker,      \* line 9
    data,        \* line 10: the table the provider returned
    filename,    \* line 12
    exitCode,    \* process exit status, -1 while running
    stdout,      \* lines printed by this execution
    requests,    \* arguments of the yf.download calls of this execution
    dirKind,     \* what "pre_stock" is on disk: "absent", "dir" or "file"
    rootWritable,\* whether the user may create files in the root directory
    files,       \* CSV files on disk: file -> content
    d_run,       \* number of the current execution
    dirAtStart,  \* dirKind when this execution started
    filesAtStart,\* files when this execution started
    written,     \* sequence of the files this execution wrote
    hist,        \* {<<argument, file>>} of all writes of all executions
    raised       \* the call whose exception ended this execution, or "none"

VARIABLES
    \* ---- Trainer (ml/model.py, train_model) ----
    t_pc,         \* line the Trainer is about to execute, or "exited"
    epoch,        \* loop variable of line 66
    iters,        \* iterations of the training loop completed in this run
    params,       \* model parameters: <<run, number of optimizer steps applied>>
    grad,         \* .grad of the parameters: the losses accumulated into it
    outputs,      \* line 69
    loss,         \* line 70
    optSteps,     \* optimizer.step() calls of this run
    t_stdout,     \* lines printed by this run
    modelDir,     \* what "../model" is on disk: "absent", "dir" or "file"
    modelFiles,   \* files under ../model: path -> content
    t_run,        \* number of the current run
    saves,        \* torch.save calls of this run
    t_dirAtStart, \* modelDir when this run started
    t_filesAtStart,\* modelFiles when this run started
    t_raised      \* the call whose exception ended this run, or "none"

tvars == <<t_pc, epoch, iters, params, grad, outputs, loss, optSteps,
           t_stdout, modelDir, modelFiles, t_run, saves, t_dirAtStart,
           t_filesAtStart, t_raised>>

VARIABLES
    \* ---- create_synthetic_data in two separate Trainer processes ----
    g_pc,        \* per process: the line it is about to execute
    torch_state, \* per process: state of torch's global generator
    np_state,    \* per process: state of numpy's global RandomState
    seq_length,  \* argument of create_synthetic_data (both processes)
    num_samples, \* argument of create_synthetic_data (both processes)
    Xl,          \* per process: the list X of lines 31, 37
    yl,          \* per process: the list y of lines 32, 38
    X,           \* per process: the tensor X returned at line 44
    y,           \* per process: the tensor y returned at line 44
    draws        \* per process: the values drawn from np.random, in order

gvars == <<g_pc, torch_state, np_state, seq_length, num_samples, Xl, yl, X,
           y, draws>>

dvars == <<argv, d_pc, ticker, data, filename, exitCode, stdout, requests,
           dirKind, rootWritable, files, d_run, dirAtStart, filesAtStart,
           written, hist, raised>>

vars == <<dvars, tvars, gvars>>

\* the other script does nothing while one script runs
TrainerIdle == UNCHANGED <<tvars, gvars>>

DownloaderIdle == UNCHANGED <<dvars, gvars>>

OnlyDataRuns == UNCHANGED <<dvars, tvars>>

\* ------------------------------------------------------------------------
\* Downloader: helpers
\* ------------------------------------------------------------------------
Alphabet == {"a", "A", "/"}

\* all character sequences of length <= n
RECURSIVE StrUpTo(_)
StrUpTo(n) ==
    IF n = 0 THEN {<<>>}
    ELSE LET S == StrUpTo(n - 1)
         IN  S \cup {Append(s, c) : s \in {t \in S : Len(t) = n - 1}, c \in Alphabet}

Tickers == StrUpTo(MaxLen)

ProgName == <<"download_stock.py">>

\* the command lines tried: no argument, or one ticker argument
Argvs == {ProgName} \cup {ProgName \o <<t>> : t \in Tickers}

\* str.upper() on one character, as a mutant: the character unchanged
UpperCharIdentity(c) == c

\* str.upper() on one character
UpperChar(c) == IF c = "a" THEN "A" ELSE c

\* sys.argv[1].upper()
upper(s) == [i \in 1..Len(s) |-> UpperChar(s[i])]

\* os.path.join(a, b): b alone when b is absolute, else a, a separator
\* unless a ends with one, and b
join(a, b) ==
    IF b # <<>> /\ b[1] = "/" THEN b
    ELSE IF a = <<>> \/ a[Len(a)] = "/" THEN a \o b
    ELSE a \o <<"/">> \o b

\* os.path.join("pre_stock", f"{ticker}.csv")
CsvPath(t) == join(<<"pre_stock">>, t \o <<".csv">>)

\* the components of a path: the pieces between separators, empty pieces
\* (repeated separators) dropped
RECURSIVE Pieces(_, _, _)
Pieces(path, cur, acc) ==
    IF path = <<>> THEN (IF cur = <<>> THEN acc ELSE Append(acc, cur))
    ELSE IF path[1] = "/"
         THEN Pieces(Tail(path), <<>>, IF cur = <<>> THEN acc ELSE Append(acc, cur))
         ELSE Pieces(Tail(path), Append(cur, path[1]), acc)

\* the file a path names: <<absolute?, components>>
FileOf(path) == <<path # <<>> /\ path[1] = "/", Pieces(path, <<>>, <<>>)>>

\* the directory a file is in
ParentOf(f) == <<f[1], SubSeq(f[2], 1, Len(f[2]) - 1)>>

RootDir == <<TRUE, <<>>>>

WorkingDir == <<FALSE, <<>>>>

PreStockDir == <<FALSE, <<<<"pre_stock">>>>>>

\* open(path, "w") succeeds when the directory of the path exists and the
\* user may write in it; the only directories are the root, the working
\* directory and, once created, pre_stock
CanCreateIn(d, kind, rootOk) ==
    \/ d = WorkingDir
    \/ d = RootDir /\ rootOk
    \/ d = PreStockDir /\ kind = "dir"

UsageLine == <<"Usage: python download_stock.py <TICKER>">>

DoneLine(t, f) == <<"Downloaded data for", t, "to", f>>

\* os.makedirs(path, exist_ok=True) as a mutant: exist_ok=False
MakedirsRaisesNoExistOk(kind) == kind # "absent"

\* os.makedirs(path, exist_ok=True) raises FileExistsError only when the
\* path exists and is not a directory
MakedirsRaises(kind) == kind = "file"

\* ------------------------------------------------------------------------
\* Downloader: actions
\* ------------------------------------------------------------------------
DInit ==
    /\ argv \in Argvs
    /\ d_pc = "check"
    /\ ticker = <<>>
    /\ data = "none"
    /\ filename = <<>>
    /\ exitCode = -1
    /\ stdout = <<>>
    /\ requests = <<>>
    /\ dirKind \in {"absent", "dir", "file"}
    /\ rootWritable \in BOOLEAN
    /\ files = <<>>
    /\ d_run = 1
    /\ dirAtStart = dirKind
    /\ filesAtStart = files
    /\ written = <<>>
    /\ hist = {}
    /\ raised = "none"

\* lines 5-7 as a mutant: sys.exit(0) after the usage string
UsageExitsZero ==
    /\ d_pc = "check"
    /\ TrainerIdle
    /\ Len(argv) < 2
    /\ stdout' = Append(stdout, UsageLine)
    /\ exitCode' = 0
    /\ d_pc' = "exited"
    /\ UNCHANGED <<argv, ticker, data, filename, requests, dirKind, files,
                   d_run, dirAtStart, filesAtStart, written, hist, raised,
                   rootWritable>>

\* lines 5-7: no ticker argument: print the usage string, sys.exit(1)
Usage ==
    /\ d_pc = "check"
    /\ TrainerIdle
    /\ Len(argv) < 2
    /\ stdout' = Append(stdout, UsageLine)
    /\ exitCode' = 1
    /\ d_pc' = "exited"
    /\ UNCHANGED <<argv, ticker, data, filename, requests, dirKind, files,
                   d_run, dirAtStart, filesAtStart, written, hist,
                   raised,
                   rootWritable>>

\* lines 5, 9: ticker = sys.argv[1].upper()
SetTicker ==
    /\ d_pc = "check"
    /\ TrainerIdle
    /\ ~(Len(argv) < 2)
    /\ ticker' = upper(argv[2])
    /\ d_pc' = "download"
    /\ UNCHANGED <<argv, data, filename, exitCode, stdout, requests, dirKind,
                   files, d_run, dirAtStart, filesAtStart, written, hist,
                   raised,
                   rootWritable>>

\* line 10: data = yf.download(ticker, period="1y"), the call returns
DownloadOk ==
    /\ d_pc = "download"
    /\ TrainerIdle
    /\ requests' = Append(requests, ticker)
    /\ data' = <<"prices", ticker, d_run>>
    /\ d_pc' = "makedirs"
    /\ UNCHANGED <<argv, ticker, filename, exitCode, stdout, dirKind, files,
                   d_run, dirAtStart, filesAtStart, written, hist,
                   raised,
                   rootWritable>>

\* line 10 as a mutant: the exception of yf.download is caught and the
\* script goes on with an empty table
DownloadRaisesSwallowed ==
    /\ d_pc = "download"
    /\ TrainerIdle
    /\ requests' = Append(requests, ticker)
    /\ raised' = "download"
    /\ data' = <<"prices", <<>>, d_run>>
    /\ d_pc' = "makedirs"
    /\ UNCHANGED <<argv, ticker, filename, exitCode, stdout, dirKind, files,
                   d_run, dirAtStart, filesAtStart, written, hist,
                   rootWritable>>

\* line 10: yf.download raises; nothing catches it, the interpreter prints
\* the traceback on stderr and exits with status 1
DownloadRaises ==
    /\ d_pc = "download"
    /\ TrainerIdle
    /\ requests' = Append(requests, ticker)
    /\ raised' = "download"
    /\ exitCode' = 1
    /\ d_pc' = "exited"
    /\ UNCHANGED <<argv, ticker, data, filename, stdout, dirKind, files,
                   d_run, dirAtStart, filesAtStart, written, hist,
                   rootWritable>>

\* line 11: os.makedirs("pre_stock", exist_ok=True)
Makedirs ==
    /\ d_pc = "makedirs"
    /\ TrainerIdle
    /\ IF MakedirsRaises(dirKind)
       THEN /\ raised' = "makedirs"
            /\ exitCode' = 1
            /\ d_pc' = "exited"
            /\ UNCHANGED dirKind
       ELSE /\ dirKind' = "dir"
            /\ d_pc' = "to_csv"
            /\ UNCHANGED <<exitCode, raised>>
    /\ UNCHANGED <<argv, ticker, data, filename, stdout, requests, files,
                   d_run, dirAtStart, filesAtStart, written, hist,
                   rootWritable>>

\* lines 12-13: filename = os.path.join(...); data.to_csv(filename)
\* creates the file or replaces its content; raises when the file cannot
\* be opened for writing
ToCsv ==
    /\ d_pc = "to_csv"
    /\ TrainerIdle
    /\ filename' = CsvPath(ticker)
    /\ LET f == FileOf(filename')
       IN  IF CanCreateIn(ParentOf(f), dirKind, rootWritable)
           THEN /\ files' = [p \in DOMAIN files \cup {f} |->
                               IF p = f THEN data ELSE files[p]]
                /\ written' = Append(written, f)
                /\ hist' = hist \cup {<<argv[2], f>>}
                /\ d_pc' = "print"
                /\ UNCHANGED <<exitCode, raised>>
           ELSE /\ raised' = "to_csv"
                /\ exitCode' = 1
                /\ d_pc' = "exited"
                /\ UNCHANGED <<files, written, hist>>
    /\ UNCHANGED <<argv, ticker, data, stdout, requests, dirKind, d_run,
                   dirAtStart, filesAtStart, rootWritable>>

\* line 14: print the success message; the script ends, exit status 0
PrintDone ==
    /\ d_pc = "print"
    /\ TrainerIdle
    /\ stdout' = Append(stdout, DoneLine(ticker, filename))
    /\ exitCode' = 0
    /\ d_pc' = "exited"
    /\ UNCHANGED <<argv, ticker, data, filename, requests, dirKind, files,
                   d_run, dirAtStart, filesAtStart, written, hist,
                   raised,
                   rootWritable>>

\* the script is started again, on the disk the earlier executions left
DRerun ==
    /\ d_pc = "exited"
    /\ TrainerIdle
    /\ d_run < MaxRuns
    /\ \E a \in Argvs : argv' = a
    /\ d_run' = d_run + 1
    /\ d_pc' = "check"
    /\ ticker' = <<>>
    /\ data' = "none"
    /\ filename' = <<>>
    /\ exitCode' = -1
    /\ stdout' = <<>>
    /\ requests' = <<>>
    /\ written' = <<>>
    /\ dirAtStart' = dirKind
    /\ filesAtStart' = files
    /\ raised' = "none"
    /\ UNCHANGED <<dirKind, rootWritable, files, hist>>

DNext ==
    \/ Usage
    \/ SetTicker
    \/ DownloadOk
    \/ DownloadRaises
    \/ Makedirs
    \/ ToCsv
    \/ PrintDone
    \/ DRerun


\* ------------------------------------------------------------------------
\* Trainer: helpers
\* ------------------------------------------------------------------------
\* model.py line 54
num_epochs == 100

\* model.py line 79
model_path_per_run == <<"../model", "lstm_model.pth", t_run>>

model_path == <<"../model", "lstm_model.pth">>

\* line 66 as a mutant: range(num_epochs - 1)
InRangeShort(i, n) == i < n - 1

\* line 66: range(n) yields i
InRange(i, n) == i < n

\* line 74 as a mutant: epoch % 10 == 0
ShouldLogZeroBased(e) == e % 10 = 0

\* line 74: (epoch + 1) % 10 == 0
ShouldLog(e) == (e + 1) % 10 = 0

\* line 68 as a mutant: the gradients are left as they are
ZeroGradNoop(g) == g

\* line 68: optimizer.zero_grad()
ZeroGrad(g) == <<>>

\* line 71: loss.backward() adds the gradient of the loss to .grad
Backward(g, l) == Append(g, l)

\* line 72: optimizer.step() updates the parameters from .grad
OptimizerStep(p, g) == <<p[1], p[2] + 1>>

\* line 80: model.state_dict()
state_dict(p) == <<"state_dict", p>>

EpochLine(e, n, l) == <<"Epoch", e, n, l>>

SavedLine(f) == <<"Model saved to", f>>

\* line 78 as a mutant: exist_ok=False
ModelDirRaisesNoExistOk(kind) == kind # "absent"

\* line 78: os.makedirs("../model", exist_ok=True) raises FileExistsError
\* only when the path exists and is not a directory
ModelDirRaises(kind) == kind = "file"

\* ------------------------------------------------------------------------
\* Trainer: actions
\* ------------------------------------------------------------------------
TInit ==
    /\ t_pc = "setup"
    /\ epoch = -1
    /\ iters = 0
    /\ params = <<1, -1>>
    /\ grad = <<>>
    /\ outputs = "none"
    /\ loss = "none"
    /\ optSteps = 0
    /\ t_stdout = <<>>
    /\ modelDir \in {"absent", "dir", "file"}
    /\ modelFiles = <<>>
    /\ t_run = 1
    /\ saves = 0
    /\ t_dirAtStart = modelDir
    /\ t_filesAtStart = modelFiles
    /\ t_raised = "none"

\* lines 47-63: hyperparameters, data, model, criterion, optimizer
Setup ==
    /\ t_pc = "setup"
    /\ DownloaderIdle
    /\ params' = <<t_run, 0>>
    /\ grad' = <<>>
    /\ t_pc' = "for"
    /\ UNCHANGED <<epoch, iters, outputs, loss, optSteps, t_stdout, modelDir,
                   modelFiles, t_run, saves, t_dirAtStart, t_filesAtStart,
                   t_raised>>

\* line 66: for epoch in range(num_epochs)
ForEpoch ==
    /\ t_pc = "for"
    /\ DownloaderIdle
    /\ IF InRange(iters, num_epochs)
       THEN /\ epoch' = iters
            /\ t_pc' = "zero_grad"
       ELSE /\ t_pc' = "makedirs"
            /\ UNCHANGED epoch
    /\ UNCHANGED <<iters, params, grad, outputs, loss, optSteps, t_stdout,
                   modelDir, modelFiles, t_run, saves, t_dirAtStart,
                   t_filesAtStart, t_raised>>

\* lines 67-68: model.train(); optimizer.zero_grad()
ZeroGradStep ==
    /\ t_pc = "zero_grad"
    /\ DownloaderIdle
    /\ grad' = ZeroGrad(grad)
    /\ t_pc' = "forward"
    /\ UNCHANGED <<epoch, iters, params, outputs, loss, optSteps, t_stdout,
                   modelDir, modelFiles, t_run, saves, t_dirAtStart,
                   t_filesAtStart, t_raised>>

\* line 69: outputs = model(X)
Forward ==
    /\ t_pc = "forward"
    /\ DownloaderIdle
    /\ outputs' = <<"outputs", params>>
    /\ t_pc' = "loss"
    /\ UNCHANGED <<epoch, iters, params, grad, loss, optSteps, t_stdout,
                   modelDir, modelFiles, t_run, saves, t_dirAtStart,
                   t_filesAtStart, t_raised>>

\* line 70: loss = criterion(outputs, y)
Loss ==
    /\ t_pc = "loss"
    /\ DownloaderIdle
    /\ loss' = <<"mse", outputs>>
    /\ t_pc' = "backward"
    /\ UNCHANGED <<epoch, iters, params, grad, outputs, optSteps, t_stdout,
                   modelDir, modelFiles, t_run, saves, t_dirAtStart,
                   t_filesAtStart, t_raised>>

\* line 71: loss.backward()
BackwardStep ==
    /\ t_pc = "backward"
    /\ DownloaderIdle
    /\ grad' = Backward(grad, loss)
    /\ t_pc' = "step"
    /\ UNCHANGED <<epoch, iters, params, outputs, loss, optSteps, t_stdout,
                   modelDir, modelFiles, t_run, saves, t_dirAtStart,
                   t_filesAtStart, t_raised>>

\* line 72: optimizer.step()
Step ==
    /\ t_pc = "step"
    /\ DownloaderIdle
    /\ params' = OptimizerStep(params, grad)
    /\ optSteps' = optSteps + 1
    /\ t_pc' = "log"
    /\ UNCHANGED <<epoch, iters, grad, outputs, loss, t_stdout, modelDir,
                   modelFiles, t_run, saves, t_dirAtStart, t_filesAtStart,
                   t_raised>>

\* lines 74-75: print the loss every 10th epoch; the iteration ends
Log ==
    /\ t_pc = "log"
    /\ DownloaderIdle
    /\ IF ShouldLog(epoch)
       THEN t_stdout' = Append(t_stdout, EpochLine(epoch + 1, num_epochs, loss))
       ELSE UNCHANGED t_stdout
    /\ iters' = iters + 1
    /\ t_pc' = "for"
    /\ UNCHANGED <<epoch, params, grad, outputs, loss, optSteps, modelDir,
                   modelFiles, t_run, saves, t_dirAtStart, t_filesAtStart,
                   t_raised>>

\* line 78: os.makedirs("../model", exist_ok=True)
ModelMakedirs ==
    /\ t_pc = "makedirs"
    /\ DownloaderIdle
    /\ IF ModelDirRaises(modelDir)
       THEN /\ t_raised' = "makedirs"
            /\ t_pc' = "exited"
            /\ UNCHANGED modelDir
       ELSE /\ modelDir' = "dir"
            /\ t_pc' = "save"
            /\ UNCHANGED t_raised
    /\ UNCHANGED <<epoch, iters, params, grad, outputs, loss, optSteps,
                   t_stdout, modelFiles, t_run, saves, t_dirAtStart,
                   t_filesAtStart>>

\* lines 79-80: torch.save(model.state_dict(), model_path) creates the file
\* or replaces its content
Save ==
    /\ t_pc = "save"
    /\ DownloaderIdle
    /\ modelFiles' = [f \in DOMAIN modelFiles \cup {model_path} |->
                         IF f = model_path THEN state_dict(params)
                         ELSE modelFiles[f]]
    /\ saves' = saves + 1
    /\ t_pc' = "print"
    /\ UNCHANGED <<epoch, iters, params, grad, outputs, loss, optSteps,
                   t_stdout, modelDir, t_run, t_dirAtStart, t_filesAtStart,
                   t_raised>>

\* line 81: print the path; train_model returns and the script ends
PrintSaved ==
    /\ t_pc = "print"
    /\ DownloaderIdle
    /\ t_stdout' = Append(t_stdout, SavedLine(model_path))
    /\ t_pc' = "exited"
    /\ UNCHANGED <<epoch, iters, params, grad, outputs, loss, optSteps,
                   modelDir, modelFiles, t_run, saves, t_dirAtStart,
                   t_filesAtStart, t_raised>>

\* the script is started again, on the disk the earlier runs left
TRerun ==
    /\ t_pc = "exited"
    /\ DownloaderIdle
    /\ t_run < MaxRuns
    /\ t_run' = t_run + 1
    /\ t_pc' = "setup"
    /\ epoch' = -1
    /\ iters' = 0
    /\ params' = <<t_run + 1, -1>>
    /\ grad' = <<>>
    /\ outputs' = "none"
    /\ loss' = "none"
    /\ optSteps' = 0
    /\ t_stdout' = <<>>
    /\ saves' = 0
    /\ t_dirAtStart' = modelDir
    /\ t_filesAtStart' = modelFiles
    /\ t_raised' = "none"
    /\ UNCHANGED <<modelDir, modelFiles>>

TNext ==
    \/ Setup
    \/ ForEpoch
    \/ ZeroGradStep
    \/ Forward
    \/ Loss
    \/ BackwardStep
    \/ Step
    \/ Log
    \/ ModelMakedirs
    \/ Save
    \/ PrintSaved
    \/ TRerun

\* ------------------------------------------------------------------------
\* Synthetic data: helpers
\* ------------------------------------------------------------------------
Procs == {1, 2}

RngStates == 0..(RngMod - 1)

\* np.random.seed(s), torch.manual_seed(s): the state is a function of s
SeedState(s) == (3 * s + 1) % RngMod

\* the generator advances by one draw
NextState(s) == (2 * s + 1) % RngMod

\* np.random.rand(): <<value, state after the draw>>
rand(s) == <<<<"rand", s>>, NextState(s)>>

\* np.random.randn(n): <<n values, state after the draws>>
RECURSIVE randn(_, _)
randn(s, n) ==
    IF n = 0 THEN <<<<>>, s>>
    ELSE LET r == randn(NextState(s), n - 1)
         IN  <<<<<<"randn", s>>>> \o r[1], r[2]>>

\* lines 34-36: data[j] = sin(linspace(start, start + pi, n + 1)[j]) + 0.1 * noise[j]
NoisySine(start, noise) ==
    [j \in 1..Len(noise) |-> <<"sin", start, j, Len(noise), "noise", noise[j]>>]

\* torch.tensor(v, dtype=torch.float32)
float32(v) == <<"float32", v>>

\* line 33: range(n) yields i
MoreSamples(i, n) == i < n

\* ------------------------------------------------------------------------
\* Synthetic data: actions of process p
\* ------------------------------------------------------------------------
GInit ==
    /\ g_pc = [p \in Procs |-> "torch_seed"]
    /\ torch_state \in [Procs -> RngStates]
    /\ np_state \in [Procs -> RngStates]
    /\ seq_length \in 1..MaxSeqLen
    /\ num_samples \in 1..MaxSamples
    /\ Xl = [p \in Procs |-> <<>>]
    /\ yl = [p \in Procs |-> <<>>]
    /\ X = [p \in Procs |-> "none"]
    /\ y = [p \in Procs |-> "none"]
    /\ draws = [p \in Procs |-> <<>>]

\* line 7: torch.manual_seed(0)
TorchSeed(p) ==
    /\ g_pc[p] = "torch_seed"
    /\ OnlyDataRuns
    /\ torch_state' = [torch_state EXCEPT ![p] = SeedState(0)]
    /\ g_pc' = [g_pc EXCEPT ![p] = "np_seed"]
    /\ UNCHANGED <<np_state, seq_length, num_samples, Xl, yl, X, y, draws>>

\* line 8 as a mutant: the numpy generator is left unseeded
NpSeedMissing(p) ==
    /\ g_pc[p] = "np_seed"
    /\ OnlyDataRuns
    /\ g_pc' = [g_pc EXCEPT ![p] = "call"]
    /\ UNCHANGED <<torch_state, np_state, seq_length, num_samples, Xl, yl, X,
                   y, draws>>

\* line 8: np.random.seed(0)
NpSeed(p) ==
    /\ g_pc[p] = "np_seed"
    /\ OnlyDataRuns
    /\ np_state' = [np_state EXCEPT ![p] = SeedState(0)]
    /\ g_pc' = [g_pc EXCEPT ![p] = "call"]
    /\ UNCHANGED <<torch_state, seq_length, num_samples, Xl, yl, X, y, draws>>

\* lines 58, 31-32: create_synthetic_data is called; X = [], y = []
CallCreate(p) ==
    /\ g_pc[p] = "call"
    /\ OnlyDataRuns
    /\ Xl' = [Xl EXCEPT ![p] = <<>>]
    /\ yl' = [yl EXCEPT ![p] = <<>>]
    /\ g_pc' = [g_pc EXCEPT ![p] = "loop"]
    /\ UNCHANGED <<torch_state, np_state, seq_length, num_samples, X, y, draws>>

\* lines 33-38: one iteration: a start phase, then seq_length + 1 noise
\* values; X gets data[:-1], y gets data[-1]
Sample(p) ==
    /\ g_pc[p] = "loop"
    /\ OnlyDataRuns
    /\ MoreSamples(Len(Xl[p]), num_samples)
    /\ LET start == rand(np_state[p])
           noise == randn(start[2], seq_length + 1)
           sine  == NoisySine(start[1], noise[1])
       IN  /\ np_state' = [np_state EXCEPT ![p] = noise[2]]
           /\ draws' = [draws EXCEPT ![p] = @ \o <<start[1]>> \o noise[1]]
           /\ Xl' = [Xl EXCEPT ![p] = Append(@, SubSeq(sine, 1, Len(sine) - 1))]
           /\ yl' = [yl EXCEPT ![p] = Append(@, sine[Len(sine)])]
    /\ UNCHANGED <<g_pc, torch_state, seq_length, num_samples, X, y>>

\* lines 33, 39-44: the loop is over; reshape to (num_samples, seq_length, 1)
\* and (num_samples, 1), convert to float32 tensors
Reshape(p) ==
    /\ g_pc[p] = "loop"
    /\ OnlyDataRuns
    /\ ~MoreSamples(Len(Xl[p]), num_samples)
    /\ X' = [X EXCEPT ![p] =
                [i \in 1..Len(Xl[p]) |->
                    [j \in 1..seq_length |-> <<float32(Xl[p][i][j])>>]]]
    /\ y' = [y EXCEPT ![p] = [i \in 1..Len(yl[p]) |-> <<float32(yl[p][i])>>]]
    /\ g_pc' = [g_pc EXCEPT ![p] = "done"]
    /\ UNCHANGED <<torch_state, np_state, seq_length, num_samples, Xl, yl, draws>>

GNext ==
    \E p \in Procs :
        \/ TorchSeed(p)
        \/ NpSeed(p)
        \/ CallCreate(p)
        \/ Sample(p)
        \/ Reshape(p)

\* ------------------------------------------------------------------------
\* Specifications
\* ------------------------------------------------------------------------
\* the script that is not running, at rest
DRest ==
    /\ argv = ProgName
    /\ d_pc = "idle"
    /\ ticker = <<>>
    /\ data = "none"
    /\ filename = <<>>
    /\ exitCode = -1
    /\ stdout = <<>>
    /\ requests = <<>>
    /\ dirKind = "absent"
    /\ rootWritable = FALSE
    /\ files = <<>>
    /\ d_run = MaxRuns
    /\ dirAtStart = "absent"
    /\ filesAtStart = <<>>
    /\ written = <<>>
    /\ hist = {}
    /\ raised = "none"

TRest ==
    /\ t_pc = "idle"
    /\ epoch = -1
    /\ iters = 0
    /\ params = <<1, -1>>
    /\ grad = <<>>
    /\ outputs = "none"
    /\ loss = "none"
    /\ optSteps = 0
    /\ t_stdout = <<>>
    /\ modelDir = "absent"
    /\ modelFiles = <<>>
    /\ t_run = MaxRuns
    /\ saves = 0
    /\ t_dirAtStart = "absent"
    /\ t_filesAtStart = <<>>
    /\ t_raised = "none"

GRest ==
    /\ g_pc = [p \in Procs |-> "idle"]
    /\ torch_state = [p \in Procs |-> 0]
    /\ np_state = [p \in Procs |-> 0]
    /\ seq_length = 1
    /\ num_samples = 1
    /\ Xl = [p \in Procs |-> <<>>]
    /\ yl = [p \in Procs |-> <<>>]
    /\ X = [p \in Procs |-> "none"]
    /\ y = [p \in Procs |-> "none"]
    /\ draws = [p \in Procs |-> <<>>]

Init == DInit /\ TRest /\ GRest

Next == DNext

Spec == Init /\ [][Next]_vars

InitTrainer == TInit /\ DRest /\ GRest

SpecTrainer == InitTrainer /\ [][TNext]_vars

InitData == GInit /\ DRest /\ TRest

SpecData == InitData /\ [][GNext]_vars

\* ------------------------------------------------------------------------
\* Downloader: properties
\* ------------------------------------------------------------------------
LowerLetters == {"a"}

LowerChar(c) == IF c = "A" THEN "a" ELSE c

\* s and t differ at most in the case of their letters
SameIgnoringCase(s, t) ==
    /\ Len(s) = Len(t)
    /\ \A i \in 1..Len(s) : LowerChar(s[i]) = LowerChar(t[i])

\* u is t with every letter in upper case
IsUpperOf(u, t) ==
    /\ SameIgnoringCase(u, t)
    /\ \A i \in 1..Len(u) : u[i] \notin LowerLetters

NoTicker == Len(argv) < 2

Succeeded == d_pc = "exited" /\ exitCode = 0

\* this execution left the disk as it found it
DiskUntouched ==
    /\ dirKind = dirAtStart
    /\ files = filesAtStart
    /\ written = <<>>

\* C1: with no ticker argument the Downloader prints the usage string and
\* exits with status 1, and that execution makes no download request, does
\* not create pre_stock and writes no CSV file.
C1_UsageExit ==
    NoTicker =>
        /\ d_pc \in {"check", "exited"}
        /\ requests = <<>>
        /\ DiskUntouched
        /\ d_pc = "exited" => (stdout = <<UsageLine>> /\ exitCode = 1)

C1_Witness ==
    /\ NoTicker
    /\ d_pc = "exited"
    /\ dirKind = "absent"
    /\ stdout = <<UsageLine>>

\* the file pre_stock/<u>.csv
InPreStock(u) == FileOf(<<"pre_stock", "/">> \o u \o <<".csv">>)

\* C2: a successful run for argument t requests upper(t) and writes exactly
\* one file, pre_stock/<upper(t)>.csv; arguments that differ only in letter
\* case give the same path, and no file is written under a spelling that
\* has a lower-case letter.
C2_AsStated ==
    /\ Succeeded =>
        /\ Len(requests) = 1
        /\ IsUpperOf(requests[1], argv[2])
        /\ written = <<InPreStock(requests[1])>>
        /\ \A p \in DOMAIN files \ {InPreStock(requests[1])} :
              p \in DOMAIN filesAtStart /\ files[p] = filesAtStart[p]
        /\ DOMAIN filesAtStart \subseteq DOMAIN files
    /\ \A g \in hist, h \in hist :
          SameIgnoringCase(g[1], h[1]) => g[2] = h[2]
    /\ \A h \in hist :
          (\E i \in 1..Len(h[1]) : h[1][i] \in LowerLetters)
              => InPreStock(h[1]) \notin DOMAIN files

\* C3: when the download request fails the process terminates: the request
\* was made exactly once, pre_stock was not created, no CSV file was created
\* or modified and the success message was not printed.
C3_DownloadFailure ==
    raised = "download" =>
        /\ d_pc = "exited"
        /\ exitCode # 0
        /\ Len(requests) = 1
        /\ DiskUntouched
        /\ stdout = <<>>

C3_Witness ==
    /\ raised = "download"
    /\ d_pc = "exited"
    /\ dirKind = "absent"
    /\ requests = <<<<"A", "A">>>>
    /\ argv[2] = <<"a", "A">>

\* C4 as stated: the exit status is 1 exactly when the ticker argument is
\* missing, and 0 in every execution that was given a ticker.
C4_AsStated ==
    d_pc = "exited" =>
        /\ exitCode = 1 <=> NoTicker
        /\ ~NoTicker => exitCode = 0

\* C4, amended: the exit status is 1 when the ticker argument is missing;
\* an execution that was given a ticker exits with 0 exactly when no call
\* raised, and with 1 when the download, the directory creation or the CSV
\* write raised.
C4_ExitStatus ==
    d_pc = "exited" =>
        /\ NoTicker => exitCode = 1
        /\ ~NoTicker =>
              /\ exitCode = 0 <=> raised = "none"
              /\ exitCode = 1 <=> raised \in {"download", "makedirs", "to_csv"}
        /\ exitCode \in {0, 1}

C4_Witness ==
    /\ d_pc = "exited"
    /\ ~NoTicker
    /\ exitCode = 1
    /\ raised = "download"

\* C5: pre_stock is a directory whenever the CSV write happens, whether or
\* not it existed at the start; the steps come in the order download,
\* ensure-directory, write; a directory that already exists, also one left
\* by an earlier run, is not an error.
C5_DirectoryBeforeWrite ==
    /\ d_pc = "to_csv" => dirKind = "dir"
    /\ written # <<>> => (dirKind = "dir" /\ Len(requests) = 1)
    /\ d_pc = "makedirs" => (Len(requests) = 1 /\ written = <<>>)
    /\ dirKind # dirAtStart => Len(requests) = 1
    /\ d_pc = "download" => (requests = <<>> /\ DiskUntouched)
    /\ dirAtStart \in {"absent", "dir"} => raised # "makedirs"

C5_Witness ==
    /\ d_run = 2
    /\ dirAtStart = "dir"
    /\ filesAtStart # <<>>
    /\ d_pc = "print"
    /\ written # <<>>

\* ------------------------------------------------------------------------
\* Trainer: properties
\* ------------------------------------------------------------------------
IsEpochLine(l) == l[1] = "Epoch"

EpochLines == SelectSeq(t_stdout, IsEpochLine)

AfterLoop == t_pc \in {"makedirs", "save", "print", "exited"}

TrainerSucceeded == t_pc = "exited" /\ t_raised = "none"

\* C6: a run executes exactly 100 epochs and logs the loss exactly at the
\* epochs 10, 20, ..., 100 (1-based): 10 lines, in increasing order, none at
\* another epoch, the last at the final epoch and before the model is saved.
C6_LogEveryTenth ==
    /\ iters <= 100
    /\ AfterLoop => iters = 100
    /\ Len(EpochLines) = iters \div 10
    /\ \A i \in 1..Len(EpochLines) :
          /\ EpochLines[i][2] = 10 * i
          /\ t_stdout[i] = EpochLines[i]
    /\ AfterLoop => (Len(EpochLines) = 10 /\ EpochLines[10][2] = 100)
    /\ saves > 0 => Len(EpochLines) = 10

C6_Witness ==
    /\ t_pc = "save"
    /\ saves = 0
    /\ Len(EpochLines) = 10
    /\ EpochLines[10][2] = 100

\* C7: the parameter file is written exactly once in a run, and only after
\* all 100 epochs: nothing is written to it while an epoch remains, and
\* after a successful run it exists and holds the parameters produced by
\* the last optimizer step.
C7_SavedOnceAtEnd ==
    /\ saves <= 1
    /\ saves = 0 => modelFiles = t_filesAtStart
    /\ saves > 0 => (iters = 100 /\ optSteps = 100)
    /\ ~AfterLoop => saves = 0
    /\ TrainerSucceeded =>
          /\ saves = 1
          /\ model_path \in DOMAIN modelFiles
          /\ modelFiles[model_path] = <<"state_dict", <<t_run, 100>>>>
          /\ params = <<t_run, 100>>

C7_Witness ==
    /\ TrainerSucceeded
    /\ t_dirAtStart = "absent"
    /\ modelFiles[model_path] = <<"state_dict", <<1, 100>>>>

\* C8: a run that finds ../model and ../model/lstm_model.pth already there
\* raises no error and overwrites the file: after any number of successful
\* runs there is exactly one parameter file, at the fixed path, and it holds
\* the parameters of the most recent run.
C8_RerunOverwrites ==
    /\ (t_dirAtStart = "dir" /\ t_filesAtStart # <<>>) => t_raised = "none"
    /\ Cardinality(DOMAIN modelFiles) <= 1
    /\ TrainerSucceeded =>
          /\ DOMAIN modelFiles = {<<"../model", "lstm_model.pth">>}
          /\ modelFiles[<<"../model", "lstm_model.pth">>][2][1] = t_run

C8_Witness ==
    /\ TrainerSucceeded
    /\ t_run = 2
    /\ t_filesAtStart[model_path] = <<"state_dict", <<1, 100>>>>
    /\ modelFiles[model_path] = <<"state_dict", <<2, 100>>>>

\* C10: every epoch runs zero-gradients, forward pass, loss, backward pass,
\* optimizer step in that order: the gradients are cleared before each
\* backward pass (never accumulated across epochs), there is exactly one
\* optimizer step per epoch, 100 in all, and all of them precede the save.
C10_EpochOrder ==
    /\ t_pc = "forward" => grad = <<>>
    /\ t_pc = "loss" => (grad = <<>> /\ outputs = <<"outputs", params>>)
    /\ t_pc = "backward" =>
          /\ grad = <<>>
          /\ loss = <<"mse", <<"outputs", params>>>>
    /\ t_pc = "step" =>
          /\ grad = <<loss>>
          /\ loss = <<"mse", <<"outputs", params>>>>
    /\ t_pc \in {"zero_grad", "forward", "loss", "backward", "step"} =>
          (optSteps = epoch /\ params = <<t_run, epoch>> /\ iters = epoch)
    /\ t_pc = "log" => (optSteps = epoch + 1 /\ params = <<t_run, epoch + 1>>)
    /\ t_pc = "for" => optSteps = iters
    /\ Len(grad) <= 1
    /\ AfterLoop => optSteps = 100
    /\ saves > 0 => optSteps = 100
    /\ optSteps <= 100

C10_Witness ==
    /\ t_pc = "step"
    /\ epoch = 99
    /\ grad = <<loss>>
    /\ optSteps = 99

\* ------------------------------------------------------------------------
\* Synthetic data: properties
\* ------------------------------------------------------------------------
IsPrefix(a, b) == Len(a) <= Len(b) /\ SubSeq(b, 1, Len(a)) = a

Seeded(p) == g_pc[p] \in {"call", "loop", "done"}

\* C9: two separate runs, each seeded with 0 at program start, draw the
\* same random values in the same order (per sample one start phase, then
\* seq_length + 1 noise values) and produce identical X and y.
C9_SameDataAcrossRuns ==
    \A p \in Procs, q \in Procs :
        /\ (Seeded(p) /\ Seeded(q)) =>
              (IsPrefix(draws[p], draws[q]) \/ IsPrefix(draws[q], draws[p]))
        /\ (Seeded(p) /\ Seeded(q) /\ Len(Xl[p]) = Len(Xl[q])) =>
              (Xl[p] = Xl[q] /\ yl[p] = yl[q] /\ np_state[p] = np_state[q])
        /\ (g_pc[p] = "done" /\ g_pc[q] = "done") =>
              (X[p] = X[q] /\ y[p] = y[q] /\ draws[p] = draws[q])
        /\ Len(draws[p]) = Len(Xl[p]) * (seq_length + 2)
        /\ \A k \in 1..Len(draws[p]) :
              draws[p][k][1] =
                  IF (k - 1) % (seq_length + 2) = 0 THEN "rand" ELSE "randn"
        /\ g_pc[p] = "done" =>
              /\ Len(X[p]) = num_samples
              /\ Len(y[p]) = num_samples
              /\ \A i \in 1..num_samples : Len(X[p][i]) = seq_length

C9_Witness ==
    /\ g_pc[1] = "done"
    /\ g_pc[2] = "done"
    /\ num_samples = 2
    /\ seq_length = 2
    /\ X[1] = X[2]
    /\ y[1] = y[2]
    /\ Len(draws[1]) = 8

====
